---- MODULE Spec2Model ----
(***************************************************************************)
(* Model of the chat endpoint of crypto-analyst-ui (app/api/chat/route.ts, *)
(* kept in src/unnamed/part_001 lines 1-128): the cadence limiter          *)
(* enforceCadence, the retry wrapper callBedrockWithRetry and the POST     *)
(* handler.  Each action is one run of a handler between two suspension    *)
(* points (await) of the single-threaded event loop.  Time is in ms.       *)
(***************************************************************************)
EXTENDS Integers, Sequences, FiniteSets, TLC

(* ---------------- bounds of the model ---------------- *)
MaxRequests == 3
StartTime == 4000
TickStep == 800
MaxTime == 6400
MaxSerialRequests == 2
MaxSerialTime == 8800
MaxFairRequests == 2
MaxFairTime == 4000
MaxLoads == 3
MaxAsks == 3

\* The handler instances that can be in flight together.
Slots == {1, 2}

(* ---------------- program constants ---------------- *)
SESSION_DELAY == 2000
GLOBAL_DELAY == 800
DefaultMaxRetries == 2
BackoffBase == 500
JitterRange == 250

(* ---------------- values ---------------- *)
\* Text values are sequences of characters, messages are sequences of words.
Undefined == [t |-> "undefined", v |-> <<>>]
JsNumber == [t |-> "number", v |-> <<"5">>]
Str(s) == [t |-> "string", v |-> s]

TypeOf(x) == x.t

\* JavaScript truthiness of the values above: undefined, 0 and '' are falsy.
Truthy(x) ==
    CASE x.t = "undefined" -> FALSE
      [] x.t = "number" -> x.v # <<"0">>
      [] x.t = "string" -> x.v # <<>>
      [] OTHER -> TRUE

IsSpace(c) == c = " "

RECURSIVE TrimStart(_)
TrimStart(s) ==
    IF s = <<>> THEN <<>>
    ELSE IF IsSpace(Head(s)) THEN TrimStart(Tail(s)) ELSE s

RECURSIVE TrimEnd(_)
TrimEnd(s) ==
    IF s = <<>> THEN <<>>
    ELSE IF IsSpace(s[Len(s)]) THEN TrimEnd(SubSeq(s, 1, Len(s) - 1)) ELSE s

Trim(s) == TrimEnd(TrimStart(s))

Includes(msg, pat) ==
    \E i \in 0..(Len(msg) - Len(pat)) : SubSeq(msg, i + 1, i + Len(pat)) = pat

QuestionRejectedValue(q) == q.t # "string" \/ q.v = <<>>
QuestionValues == {Undefined, JsNumber, Str(<<>>), Str(<<"h", "i">>)}
SessionValues ==
    {Undefined, JsNumber, Str(<<>>), Str(<<" ">>), Str(<<"a">>), Str(<<" ", "a">>)}

\* What req.json() yields: a rejection (the text is not JSON), the JSON value
\* null, a JSON value that is not an object (its properties read as
\* undefined), or an object with the two fields.
Bodies ==
    {[kind |-> "unparseable", question |-> Undefined, sessionId |-> Undefined],
     [kind |-> "null", question |-> Undefined, sessionId |-> Undefined],
     [kind |-> "scalar", question |-> Undefined, sessionId |-> Undefined]}
    \cup {b \in [kind : {"object"}, question : QuestionValues, sessionId : SessionValues] :
              QuestionRejectedValue(b.question) => b.sessionId = Undefined}

NoBody == [kind |-> "none", question |-> Undefined, sessionId |-> Undefined]

MissingQuestion == <<"Missing", "\"question\"", "in", "request", "body">>
GenericFailure ==
    <<"Failed", "to", "contact", "the", "Finance", "Agent", "due", "to", "rate",
      "limiting", "or", "another", "error.">>
JsonSyntaxError == [name |-> "SyntaxError", message |-> <<"Unexpected", "token">>, attempt |-> -1]
DestructureError ==
    [name |-> "TypeError", message |-> <<"Cannot", "destructure", "property">>, attempt |-> -1]
NoError == [name |-> "none", message |-> <<>>, attempt |-> -1]

\* fields holds the names of the properties of the JSON body.
NoResponse == [status |-> 0, fields |-> {}, error |-> <<>>, reply |-> <<>>, sessionId |-> <<>>]
ErrorResponse(st, msg) ==
    [status |-> st, fields |-> {"error"}, error |-> msg, reply |-> <<>>, sessionId |-> <<>>]

UuidDigits == <<"1", "2", "3", "4", "5", "6", "7", "8", "9">>
RandomUUID(n) == <<"u", UuidDigits[n]>>

\* Failures the outbound call (or the iteration of its stream) can raise.
ThrottlePhrase == <<"Your", "request", "rate", "is", "too", "high">>
BedrockErrors ==
    {[name |-> "ThrottlingException", message |-> <<"Rate", "exceeded">>],
     [name |-> "Error", message |-> <<"Bedrock:">> \o ThrottlePhrase],
     [name |-> "DependencyFailedException", message |-> <<"Rate", "exceeded">>],
     [name |-> "Error", message |-> <<>>]}
Thrown(e, n) == [name |-> e.name, message |-> e.message, attempt |-> n]

\* Events of response.completion.  bytes is a sequence of byte values.
NoChunk == [chunk |-> FALSE, hasBytes |-> FALSE, bytes |-> <<>>]
ChunkNoBytes == [chunk |-> TRUE, hasBytes |-> FALSE, bytes |-> <<>>]
Chunk(b) == [chunk |-> TRUE, hasBytes |-> TRUE, bytes |-> b]
Streams ==
    {<<>>,
     <<Chunk(<<72>>), Chunk(<<105>>)>>,
     <<NoChunk, Chunk(<<32>>)>>,
     <<Chunk(<<195>>), ChunkNoBytes, Chunk(<<169>>)>>,
     <<Chunk(<<195, 169>>)>>}
Completions ==
    {[present |-> FALSE, events |-> <<>>]} \cup [present : {TRUE}, events : Streams]
NoCompletion == [present |-> FALSE, events |-> <<>>]
NoResult == [kind |-> "none", attempt |-> -1, error |-> NoError]
NoCommand == [sessionId |-> <<>>, inputText |-> <<>>]

\* Math.random() * 250 lies in [0, 250): the two ends of the range.
Jitters == {0, JitterRange - 1}

VARIABLES
    now,                 \* Date.now()
    lastCallPerSession,  \* the Map: a function whose domain is the set of keys
    lastGlobalCall,
    uuids,               \* number of identifiers crypto.randomUUID() has issued
    started,             \* number of requests received so far
    permits,             \* history: the permissions enforceCadence recorded
    overlapped,          \* history: two enforceCadence invocations were in flight together
    pc,                  \* where each handler instance is suspended
    body,                \* the body of the request the slot serves
    sid,                 \* effectiveSessionId
    wakeAt,              \* due time of the pending setTimeout
    cadenceCalls,        \* history: invocations of enforceCadence by the request
    paceKey,             \* history: the sessionId enforceCadence was called with
    seen,                \* history: number of permissions recorded when line 26 read the Map
    command,             \* the InvokeAgentCommand of lines 87-92
    attempt,             \* loop variable of callBedrockWithRetry
    lastError,
    inFlight,            \* bedrockClient.send calls not yet settled
    outcomes,            \* history: how each settled send call ended
    sendCalls,           \* history: invocations of bedrockClient.send
    waits,               \* history: the backoff delays passed to sleep
    result,              \* how callBedrockWithRetry ended
    completion,          \* response.completion and the position of the iteration
    pos,
    reply,
    streamError,         \* history: the failure the iteration of the stream raised
    resp,                \* the HTTP response
    responded,           \* history: number of responses returned for the request
    selectedSymbol,      \* state of the dashboard page (page.tsx, lines 150-153)
    history,
    historyLoading,
    historyError,
    loads,               \* the calls of loadHistory and where each is suspended
    chatInput,           \* chat state of the dashboard page (page.tsx, lines 133-145)
    chatMessages,
    chatLoading,
    chatSessionId,
    asks                 \* the calls of handleChatAsk and where each is suspended

vars == <<now, lastCallPerSession, lastGlobalCall, uuids, started, permits,
          overlapped, pc, body, sid, wakeAt, cadenceCalls, attempt, lastError,
          inFlight, outcomes, sendCalls, waits, result, completion, pos, reply,
          resp, paceKey, seen, command, streamError, responded,
          selectedSymbol, history, historyLoading, historyError, loads,
          chatInput, chatMessages, chatLoading, chatSessionId, asks>>
serverVars ==
    <<now, lastCallPerSession, lastGlobalCall, uuids, started, permits, overlapped, pc,
      body, sid, wakeAt, cadenceCalls, attempt, lastError, inFlight, outcomes,
      sendCalls, waits, result, completion, pos, reply, resp, paceKey, seen, command,
      streamError, responded>>
historyVars == <<selectedSymbol, history, historyLoading, historyError, loads>>
chatVars == <<chatInput, chatMessages, chatLoading, chatSessionId, asks>>
pageVars == <<historyVars, chatVars>>

pacing == <<lastCallPerSession, lastGlobalCall>>
cadenceVars ==
    <<lastCallPerSession, lastGlobalCall, permits, overlapped, cadenceCalls, paceKey, seen>>
retryVars == <<attempt, lastError, inFlight, outcomes, sendCalls, waits, result, command>>
streamVars == <<completion, pos, reply, streamError>>

Init ==
    /\ now = StartTime
    /\ lastCallPerSession = <<>>
    /\ lastGlobalCall = 0
    /\ uuids = 0
    /\ started = 0
    /\ permits = <<>>
    /\ overlapped = FALSE
    /\ pc = [r \in Slots |-> "idle"]
    /\ body = [r \in Slots |-> NoBody]
    /\ sid = [r \in Slots |-> <<>>]
    /\ wakeAt = [r \in Slots |-> 0]
    /\ cadenceCalls = [r \in Slots |-> 0]
    /\ attempt = [r \in Slots |-> 0]
    /\ lastError = [r \in Slots |-> NoError]
    /\ inFlight = [r \in Slots |-> 0]
    /\ outcomes = [r \in Slots |-> <<>>]
    /\ sendCalls = [r \in Slots |-> 0]
    /\ waits = [r \in Slots |-> <<>>]
    /\ result = [r \in Slots |-> NoResult]
    /\ completion = [r \in Slots |-> NoCompletion]
    /\ pos = [r \in Slots |-> 0]
    /\ reply = [r \in Slots |-> <<>>]
    /\ resp = [r \in Slots |-> NoResponse]
    /\ paceKey = [r \in Slots |-> <<>>]
    /\ seen = [r \in Slots |-> 0]
    /\ command = [r \in Slots |-> NoCommand]
    /\ streamError = [r \in Slots |-> NoError]
    /\ responded = [r \in Slots |-> 0]
    /\ selectedSymbol = "null"
    /\ history = <<>>
    /\ historyLoading = FALSE
    /\ historyError = "null"
    /\ loads = <<>>
    /\ chatInput = <<>>
    /\ chatMessages = <<>>
    /\ chatLoading = FALSE
    /\ chatSessionId = Undefined
    /\ asks = <<>>

(* ---------------- enforceCadence ---------------- *)
MapGet(m, k) == IF k \in DOMAIN m THEN m[k] ELSE 0
\* Variant of MapSet that drops the entries older than SESSION_DELAY when it
\* stores a timestamp.
MapSetPruning(m, k, v) ==
    [x \in {y \in DOMAIN m : m[y] + SESSION_DELAY >= v} \cup {k} |->
        IF x = k THEN v ELSE m[x]]
MapSet(m, k, v) == [x \in (DOMAIN m) \cup {k} |-> IF x = k THEN v ELSE m[x]]

Max(a, b) == IF a >= b THEN a ELSE b

SessionLag(m, s, t) == MapGet(m, s) + SESSION_DELAY - t
GlobalLag(g, t) == g + GLOBAL_DELAY - t
\* Variant of WaitFor that paces on the global record alone.
WaitForGlobalOnly(m, g, s, t) == Max(GlobalLag(g, t), 0)

\* Variant of WaitFor that paces on the record of the session alone.
WaitForSessionOnly(m, g, s, t) == Max(SessionLag(m, s, t), 0)

\* Variant of WaitFor that adds the two lags instead of taking the larger.
WaitForSum(m, g, s, t) == Max(Max(SessionLag(m, s, t), 0) + Max(GlobalLag(g, t), 0), 0)

\* Line 28.
WaitFor(m, g, s, t) == Max(Max(SessionLag(m, s, t), GlobalLag(g, t)), 0)


\* Variant of RecordPermission without the assignment of line 36.
RecordPermissionSessionOnly(r, s, n) ==
    /\ lastCallPerSession' = MapSet(lastCallPerSession, s, now)
    /\ lastGlobalCall' = lastGlobalCall
    /\ permits' = Append(permits, [sid |-> s, ts |-> now, seen |-> n])

\* Lines 34-36: the permission is recorded with the time read after the wait.
\* n is the number of permissions that were recorded when the invocation read
\* the pacing record (line 26).
RecordPermission(r, s, n) ==
    /\ lastCallPerSession' = MapSet(lastCallPerSession, s, now)
    /\ lastGlobalCall' = now
    /\ permits' = Append(permits, [sid |-> s, ts |-> now, seen |-> n])

(* ---------------- POST ---------------- *)
QuestionRejected(q) == ~Truthy(q) \/ TypeOf(q) # "string"

\* The test of lines 78-79 without the trim.
GeneratesSessionIdUntrimmed(s) == ~(TypeOf(s) = "string" /\ Len(s.v) > 0)
GeneratesSessionId(s) == ~(TypeOf(s) = "string" /\ Len(Trim(s.v)) > 0)
EffectiveSessionId(s, n) == IF GeneratesSessionId(s) THEN RandomUUID(n) ELSE s.v

\* The catch answering with its fixed text whatever the failure says.
ErrorMessageFixed(err) == GenericFailure
ErrorMessage(err) == IF err.message # <<>> THEN err.message ELSE GenericFailure

Respond(r, response) ==
    /\ pc' = [pc EXCEPT ![r] = "done"]
    /\ resp' = [resp EXCEPT ![r] = response]
    /\ responded' = [responded EXCEPT ![r] = @ + 1]
    /\ wakeAt' = [wakeAt EXCEPT ![r] = 0]

\* The catch answering with the failure's text as the reply of the chat.
CatchAsReply(r, err) ==
    Respond(r, [status |-> 500, fields |-> {"reply", "sessionId"}, error |-> <<>>,
                reply |-> ErrorMessage(err), sessionId |-> sid[r]])

\* The catch block of POST (lines 116-127).
Catch(r, err) == Respond(r, ErrorResponse(500, ErrorMessage(err)))

\* Variant of ValidationFailure in which the cadence was acquired before the
\* question is validated.
ValidationFailureAfterCadence(r) ==
    /\ Respond(r, ErrorResponse(400, MissingQuestion))
    /\ cadenceCalls' = [cadenceCalls EXCEPT ![r] = @ + 1]
    /\ RecordPermission(r, EffectiveSessionId(body[r].sessionId, uuids + 1), Len(permits))
    /\ UNCHANGED <<sid, uuids, overlapped, paceKey, seen>>

\* Lines 71-76: the 400 answer; nothing else is done for the request.
ValidationFailure(r) ==
    /\ Respond(r, ErrorResponse(400, MissingQuestion))
    /\ UNCHANGED <<sid, uuids, cadenceVars>>

\* A request arrives; the handler suspends in `await req.json()` (line 68).
\* limit bounds the number of requests the model receives.
POST_Start(r, b, limit) ==
    /\ pc[r] \in {"idle", "done"}
    /\ started < limit
    /\ started' = started + 1
    /\ pc' = [pc EXCEPT ![r] = "json"]
    /\ body' = [body EXCEPT ![r] = b]
    /\ sid' = [sid EXCEPT ![r] = <<>>]
    /\ wakeAt' = [wakeAt EXCEPT ![r] = 0]
    /\ cadenceCalls' = [cadenceCalls EXCEPT ![r] = 0]
    /\ attempt' = [attempt EXCEPT ![r] = 0]
    /\ lastError' = [lastError EXCEPT ![r] = NoError]
    /\ inFlight' = [inFlight EXCEPT ![r] = 0]
    /\ outcomes' = [outcomes EXCEPT ![r] = <<>>]
    /\ sendCalls' = [sendCalls EXCEPT ![r] = 0]
    /\ waits' = [waits EXCEPT ![r] = <<>>]
    /\ result' = [result EXCEPT ![r] = NoResult]
    /\ completion' = [completion EXCEPT ![r] = NoCompletion]
    /\ pos' = [pos EXCEPT ![r] = 0]
    /\ reply' = [reply EXCEPT ![r] = <<>>]
    /\ resp' = [resp EXCEPT ![r] = NoResponse]
    /\ paceKey' = [paceKey EXCEPT ![r] = <<>>]
    /\ seen' = [seen EXCEPT ![r] = 0]
    /\ command' = [command EXCEPT ![r] = NoCommand]
    /\ streamError' = [streamError EXCEPT ![r] = NoError]
    /\ responded' = [responded EXCEPT ![r] = 0]
    /\ UNCHANGED pageVars
    /\ UNCHANGED <<now, lastCallPerSession, lastGlobalCall, uuids, permits, overlapped>>

\* Lines 68-85 and 22-36: the body is read, the question validated, the session
\* chosen, and enforceCadence runs up to its sleep (or to its end when there
\* is nothing to wait for).
POST_Parse(r) ==
    /\ pc[r] = "json"
    /\ LET b == body[r]
           s == EffectiveSessionId(b.sessionId, uuids + 1)
           w == WaitFor(lastCallPerSession, lastGlobalCall, s, now)
       IN
       IF b.kind = "unparseable" THEN
            /\ Catch(r, JsonSyntaxError)
            /\ UNCHANGED <<sid, uuids, cadenceVars>>
       ELSE IF b.kind = "null" THEN
            /\ Catch(r, DestructureError)
            /\ UNCHANGED <<sid, uuids, cadenceVars>>
       ELSE IF QuestionRejected(b.question) THEN
            ValidationFailure(r)
       ELSE
            /\ sid' = [sid EXCEPT ![r] = s]
            /\ uuids' = IF GeneratesSessionId(b.sessionId) THEN uuids + 1 ELSE uuids
            /\ cadenceCalls' = [cadenceCalls EXCEPT ![r] = @ + 1]
            /\ paceKey' = [paceKey EXCEPT ![r] = s]
            /\ seen' = [seen EXCEPT ![r] = Len(permits)]
            /\ overlapped' = (overlapped \/ \E o \in Slots : pc[o] = "cadenceSleep")
            /\ IF w > 0
               THEN /\ pc' = [pc EXCEPT ![r] = "cadenceSleep"]
                    /\ wakeAt' = [wakeAt EXCEPT ![r] = now + w]
                    /\ UNCHANGED <<lastCallPerSession, lastGlobalCall, permits>>
               ELSE /\ pc' = [pc EXCEPT ![r] = "cadenceDone"]
                    /\ RecordPermission(r, s, Len(permits))
                    /\ UNCHANGED wakeAt
            /\ UNCHANGED <<resp, responded>>
    /\ UNCHANGED pageVars
    /\ UNCHANGED <<now, started, body, retryVars, streamVars>>

\* Lines 31-36: the timer of enforceCadence fires, the permission is recorded.
CadenceWake(r) ==
    /\ pc[r] = "cadenceSleep"
    /\ now >= wakeAt[r]
    /\ RecordPermission(r, sid[r], seen[r])
    /\ pc' = [pc EXCEPT ![r] = "cadenceDone"]
    /\ wakeAt' = [wakeAt EXCEPT ![r] = 0]
    /\ UNCHANGED pageVars
    /\ UNCHANGED <<now, uuids, started, overlapped, body, sid, cadenceCalls, paceKey,
                   seen, retryVars, streamVars, resp, responded>>

(* ---------------- callBedrockWithRetry ---------------- *)
RECURSIVE Pow2(_)
Pow2(n) == IF n <= 0 THEN 1 ELSE 2 * Pow2(n - 1)

\* The wait of the route's earlier retry loop: 300 ms times the attempt.
BackoffLinear(n, jitter) == 300 * n
Backoff(n, jitter) == BackoffBase * Pow2(n - 1) + jitter

\* Variant of IsThrottling that takes every failure for a throttling one.
IsThrottlingAny(err) == Includes(err.message, <<>>) \/ err.name = "ThrottlingException"

\* Lines 50-55.
IsThrottling(err) ==
    Includes(err.message, ThrottlePhrase) \/ err.name = "ThrottlingException"

\* Variants of the loop condition: one attempt short, one attempt too many.
MoreAttemptsFewer(n, maxRetries) == n < maxRetries
MoreAttemptsExtra(n, maxRetries) == n <= maxRetries + 1

\* Line 41: the loop condition.
MoreAttempts(n, maxRetries) == n <= maxRetries

\* Variant of Remember that keeps the first failure.
RememberFirst(prev, err) == IF prev = NoError THEN err ELSE prev

\* Variant of Remember that never assigns lastError.
RememberNothing(prev, err) == prev

\* Line 56: lastError = err.
Remember(prev, err) == err

\* Line 48: bedrockClient.send(command) is invoked and awaited.
Send(r) ==
    /\ inFlight' = [inFlight EXCEPT ![r] = @ + 1]
    /\ sendCalls' = [sendCalls EXCEPT ![r] = @ + 1]
    /\ pc' = [pc EXCEPT ![r] = "sending"]

\* Variant of CallBedrock that holds one outbound exchange at a time: the
\* call waits while another request is calling or backing off.
CallBedrockExclusive(r) ==
    /\ pc[r] = "cadenceDone"
    /\ \A o \in Slots \ {r} : pc[o] \notin {"sending", "backoff"}
    /\ command' = [command EXCEPT ![r] =
                       [sessionId |-> sid[r], inputText |-> body[r].question.v]]
    /\ attempt' = [attempt EXCEPT ![r] = 0]
    /\ Send(r)
    /\ UNCHANGED pageVars
    /\ UNCHANGED <<now, uuids, started, cadenceVars, body, sid, wakeAt, lastError,
                   outcomes, waits, result, streamVars, resp, responded>>

\* Lines 87-95 and 39-48 with attempt = 0: the command is built and, with no
\* wait, the first call is issued.
CallBedrock(r) ==
    /\ pc[r] = "cadenceDone"
    /\ command' = [command EXCEPT ![r] =
                       [sessionId |-> sid[r], inputText |-> body[r].question.v]]
    /\ attempt' = [attempt EXCEPT ![r] = 0]
    /\ Send(r)
    /\ UNCHANGED pageVars
    /\ UNCHANGED <<now, uuids, started, cadenceVars, body, sid, wakeAt, lastError,
                   outcomes, waits, result, streamVars, resp, responded>>

\* Lines 97-115 once the iteration is over (or there is nothing to iterate).
FallbackReply ==
    <<"Sorry,", " ", "I", " ", "could", " ", "not", " ", "get", " ", "a", " ",
      "response", " ", "from", " ", "the", " ", "Finance", " ", "Agent.">>
\* The test of line 108 without the trim.
ReplyUntrimmed(text) == IF text = <<>> THEN FallbackReply ELSE text
Reply(text) == IF Trim(text) = <<>> THEN FallbackReply ELSE text
OkResponse(text, s) ==
    [status |-> 200, fields |-> {"reply", "sessionId"}, error |-> <<>>,
     reply |-> Reply(text), sessionId |-> s]

\* TextDecoder.decode(bytes) of one chunk (UTF-8, no stream option): ASCII
\* bytes give their character, a complete two-byte sequence gives one
\* character, and any byte that starts no complete sequence gives U+FFFD.
Char(b) ==
    CASE b = 32 -> " "
      [] b = 72 -> "H"
      [] b = 105 -> "i"
      [] OTHER -> "U+FFFD"
IsContinuation(b) == b >= 128 /\ b <= 191
IsLead2(b) == b >= 194 /\ b <= 223
RECURSIVE Decode(_)
Decode(bytes) ==
    IF bytes = <<>> THEN <<>>
    ELSE IF Head(bytes) < 128 THEN <<Char(Head(bytes))>> \o Decode(Tail(bytes))
    ELSE IF IsLead2(Head(bytes)) /\ Len(bytes) >= 2 /\ IsContinuation(bytes[2])
         THEN <<"U+00E9">> \o Decode(Tail(Tail(bytes)))
    ELSE <<"U+FFFD">> \o Decode(Tail(bytes))

\* Line 48 returns: callBedrockWithRetry returns the response; POST goes on to
\* iterate response.completion when there is one (lines 97-101).
SendSuccess(r, c) ==
    /\ pc[r] = "sending"
    /\ inFlight' = [inFlight EXCEPT ![r] = @ - 1]
    /\ outcomes' = [outcomes EXCEPT ![r] = Append(@, [ok |-> TRUE, error |-> NoError])]
    /\ result' = [result EXCEPT ![r] =
                     [kind |-> "return", attempt |-> attempt[r], error |-> NoError]]
    /\ completion' = [completion EXCEPT ![r] = c]
    /\ reply' = [reply EXCEPT ![r] = <<>>]
    /\ pos' = [pos EXCEPT ![r] = 0]
    /\ IF c.present
       THEN /\ pc' = [pc EXCEPT ![r] = "stream"]
            /\ UNCHANGED <<resp, responded, wakeAt>>
       ELSE Respond(r, OkResponse(<<>>, sid[r]))
    /\ UNCHANGED pageVars
    /\ UNCHANGED <<now, uuids, started, cadenceVars, body, sid, attempt, lastError,
                   sendCalls, waits, command, streamError>>

\* Lines 49-63: the call fails.  A throttling failure is remembered and the
\* loop goes on (backoff, lines 43-47) while attempts remain; any other
\* failure, and the last throttling failure, is thrown to POST's catch.
SendFail(r, e, jitter) ==
    /\ pc[r] = "sending"
    /\ LET err == Thrown(e, attempt[r])
           next == attempt[r] + 1
       IN
       /\ inFlight' = [inFlight EXCEPT ![r] = @ - 1]
       /\ outcomes' = [outcomes EXCEPT ![r] = Append(@, [ok |-> FALSE, error |-> err])]
       /\ IF IsThrottling(err) THEN
             /\ lastError' = [lastError EXCEPT ![r] = Remember(lastError[r], err)]
             /\ attempt' = [attempt EXCEPT ![r] = next]
             /\ IF MoreAttempts(next, DefaultMaxRetries)
                THEN /\ pc' = [pc EXCEPT ![r] = "backoff"]
                     /\ wakeAt' = [wakeAt EXCEPT ![r] = now + Backoff(next, jitter)]
                     /\ waits' = [waits EXCEPT ![r] = Append(@, Backoff(next, jitter))]
                     /\ UNCHANGED <<result, resp, responded>>
                ELSE /\ jitter = 0
                     /\ result' = [result EXCEPT ![r] =
                                      [kind |-> "throw", attempt |-> -1,
                                       error |-> lastError'[r]]]
                     /\ Catch(r, lastError'[r])
                     /\ UNCHANGED waits
          ELSE
             /\ jitter = 0
             /\ result' = [result EXCEPT ![r] =
                              [kind |-> "throw", attempt |-> -1, error |-> err]]
             /\ Catch(r, err)
             /\ UNCHANGED <<lastError, attempt, waits>>
    /\ UNCHANGED pageVars
    /\ UNCHANGED <<now, uuids, started, cadenceVars, body, sid, sendCalls, command,
                   streamVars>>

\* Variant of BackoffWake in which enforceCadence is called inside the retry
\* loop, before each call, instead of once before it.
BackoffWakeReacquire(r) ==
    /\ pc[r] = "backoff"
    /\ now >= wakeAt[r]
    /\ wakeAt' = [wakeAt EXCEPT ![r] = 0]
    /\ cadenceCalls' = [cadenceCalls EXCEPT ![r] = @ + 1]
    /\ RecordPermission(r, sid[r], Len(permits))
    /\ Send(r)
    /\ UNCHANGED pageVars
    /\ UNCHANGED <<now, uuids, started, overlapped, paceKey, seen, body, sid, attempt,
                   lastError, outcomes, waits, result, command, streamVars, resp,
                   responded>>

\* Variant of BackoffWake in which the promise of sleep is never resolved: the
\* timer fires and the loop stays where it is.
BackoffWakeLost(r) ==
    /\ pc[r] = "backoff"
    /\ now >= wakeAt[r]
    /\ wakeAt' = [wakeAt EXCEPT ![r] = 0]
    /\ UNCHANGED pageVars
    /\ UNCHANGED <<now, uuids, started, cadenceVars, pc, body, sid, retryVars,
                   streamVars, resp, responded>>

\* Lines 46-48: the backoff timer fires and the next call is issued.
BackoffWake(r) ==
    /\ pc[r] = "backoff"
    /\ now >= wakeAt[r]
    /\ wakeAt' = [wakeAt EXCEPT ![r] = 0]
    /\ Send(r)
    /\ UNCHANGED pageVars
    /\ UNCHANGED <<now, uuids, started, cadenceVars, body, sid, attempt, lastError,
                   outcomes, waits, result, command, streamVars, resp, responded>>

(* ---------------- the streamed response ---------------- *)
\* The decoded text put in front of the reply instead of after it.
AccumulatePrepended(text, event) ==
    IF event.chunk /\ event.hasBytes THEN Decode(event.bytes) \o text ELSE text

\* Lines 102-104: the bytes of an event that has some are decoded and appended.
Accumulate(text, event) ==
    IF event.chunk /\ event.hasBytes THEN text \o Decode(event.bytes) ELSE text

\* Variant of StreamNext in which reply is one variable of the module, shared
\* by the handlers as lastGlobalCall is, instead of a local of POST.
StreamNextShared(r) ==
    /\ pc[r] = "stream"
    /\ IF pos[r] < Len(completion[r].events)
       THEN LET event == completion[r].events[pos[r] + 1] IN
            /\ pos' = [pos EXCEPT ![r] = @ + 1]
            /\ reply' = [x \in Slots |-> Accumulate(reply[x], event)]
            /\ UNCHANGED <<pc, resp, responded, wakeAt>>
       ELSE /\ Respond(r, OkResponse(reply[r], sid[r]))
            /\ UNCHANGED <<pos, reply>>
    /\ UNCHANGED pageVars
    /\ UNCHANGED <<now, uuids, started, cadenceVars, body, sid, retryVars, completion,
                   streamError>>

\* Lines 101-115: one turn of `for await`: the next event is taken and its
\* bytes, when it has some, are decoded and appended; at the end of the
\* stream the reply is completed and the 200 response is sent.
StreamNext(r) ==
    /\ pc[r] = "stream"
    /\ IF pos[r] < Len(completion[r].events)
       THEN LET event == completion[r].events[pos[r] + 1] IN
            /\ pos' = [pos EXCEPT ![r] = @ + 1]
            /\ reply' = [reply EXCEPT ![r] = Accumulate(@, event)]
            /\ UNCHANGED <<pc, resp, responded, wakeAt>>
       ELSE /\ Respond(r, OkResponse(reply[r], sid[r]))
            /\ UNCHANGED <<pos, reply>>
    /\ UNCHANGED pageVars
    /\ UNCHANGED <<now, uuids, started, cadenceVars, body, sid, retryVars, completion,
                   streamError>>

\* Variant of StreamFail in which the loop of callBedrockWithRetry wraps the
\* reading of the stream too: a throttling failure of the iteration sends the
\* command again.
StreamFailRetried(r, e) ==
    /\ pc[r] = "stream"
    /\ streamError' = [streamError EXCEPT ![r] = Thrown(e, -1)]
    /\ IF IsThrottling(Thrown(e, -1))
       THEN /\ Send(r)
            /\ UNCHANGED <<resp, responded, wakeAt>>
       ELSE /\ Catch(r, Thrown(e, -1))
            /\ UNCHANGED <<inFlight, sendCalls>>
    /\ UNCHANGED pageVars
    /\ UNCHANGED <<now, uuids, started, cadenceVars, body, sid, attempt, lastError,
                   outcomes, waits, result, command, completion, pos, reply>>

\* Variant of StreamFail in which the catch takes back the permission of the
\* failed request: the entry of its session is deleted.
StreamFailRollback(r, e) ==
    /\ pc[r] = "stream"
    /\ streamError' = [streamError EXCEPT ![r] = Thrown(e, -1)]
    /\ Catch(r, Thrown(e, -1))
    /\ lastCallPerSession' =
          [k \in (DOMAIN lastCallPerSession) \ {sid[r]} |-> lastCallPerSession[k]]
    /\ UNCHANGED pageVars
    /\ UNCHANGED <<now, uuids, started, lastGlobalCall, permits, overlapped,
                   cadenceCalls, paceKey, seen, body, sid, retryVars, completion, pos,
                   reply>>

\* The iteration of the stream throws: POST's catch answers (lines 116-127).
StreamFail(r, e) ==
    /\ pc[r] = "stream"
    /\ streamError' = [streamError EXCEPT ![r] = Thrown(e, -1)]
    /\ Catch(r, Thrown(e, -1))
    /\ UNCHANGED pageVars
    /\ UNCHANGED <<now, uuids, started, cadenceVars, body, sid, retryVars, completion,
                   pos, reply>>

(* ---------------- time ---------------- *)
\* Variant of Tick with a request timeout: when time passes, the pending
\* outbound calls are abandoned and their requests answered 500.
TickWithTimeout(horizon) ==
    /\ now + TickStep <= horizon
    /\ now' = now + TickStep
    /\ pc' = [r \in Slots |-> IF pc[r] = "sending" THEN "done" ELSE pc[r]]
    /\ resp' = [r \in Slots |->
                  IF pc[r] = "sending" THEN ErrorResponse(500, GenericFailure) ELSE resp[r]]
    /\ responded' = [r \in Slots |-> IF pc[r] = "sending" THEN 1 ELSE responded[r]]
    /\ UNCHANGED pageVars
    /\ UNCHANGED <<lastCallPerSession, lastGlobalCall, uuids, started, permits,
                   overlapped, body, sid, wakeAt, cadenceCalls, paceKey, seen,
                   retryVars, streamVars>>

\* Time passes, up to the horizon of the model.
Tick(horizon) ==
    /\ now + TickStep <= horizon
    /\ now' = now + TickStep
    /\ UNCHANGED pageVars
    /\ UNCHANGED <<lastCallPerSession, lastGlobalCall, uuids, started, permits,
                   overlapped, pc, body, sid, wakeAt, cadenceCalls, paceKey, seen,
                   retryVars, streamVars, resp, responded>>

(* ---------------- the endpoint ---------------- *)
\* Several handler instances in flight at once.  The inputs are the few that
\* the interleavings depend on: two sessions (one supplied, one generated),
\* a rejected body, a throttling and a non-throttling failure, two streams.
ValidBody(s) == [kind |-> "object", question |-> Str(<<"h", "i">>), sessionId |-> s]
ConcurrentBodies ==
    {ValidBody(Str(<<"a">>)), ValidBody(Undefined),
     [kind |-> "object", question |-> Undefined, sessionId |-> Undefined]}
ConcurrentErrors ==
    {e \in BedrockErrors : e.name \in {"ThrottlingException", "DependencyFailedException"}}
ConcurrentCompletions ==
    {c \in Completions :
        \/ ~c.present
        \/ c.events \in {<<Chunk(<<72>>), Chunk(<<105>>)>>, <<Chunk(<<195, 169>>)>>}}

Next ==
    \/ \E r \in Slots, b \in ConcurrentBodies : POST_Start(r, b, MaxRequests)
    \/ \E r \in Slots : POST_Parse(r)
    \/ \E r \in Slots : CadenceWake(r)
    \/ \E r \in Slots : CallBedrock(r)
    \/ \E r \in Slots, c \in ConcurrentCompletions : SendSuccess(r, c)
    \/ \E r \in Slots, e \in ConcurrentErrors : SendFail(r, e, 0)
    \/ \E r \in Slots : BackoffWake(r)
    \/ \E r \in Slots : StreamNext(r)
    \/ \E r \in Slots, e \in ConcurrentErrors : StreamFail(r, e)
    \/ Tick(MaxTime)

Spec == Init /\ [][Next]_vars

\* One handler instance at a time (requests follow one another), with every
\* body, failure, stream and jitter of the model, and a horizon long enough
\* for every backoff wait.
NextRequest ==
    \/ \E b \in Bodies : POST_Start(1, b, MaxSerialRequests)
    \/ POST_Parse(1)
    \/ CadenceWake(1)
    \/ CallBedrock(1)
    \/ \E c \in Completions : SendSuccess(1, c)
    \/ \E e \in BedrockErrors, j \in Jitters : SendFail(1, e, j)
    \/ BackoffWake(1)
    \/ StreamNext(1)
    \/ \E e \in BedrockErrors : StreamFail(1, e)
    \/ Tick(MaxSerialTime)

RequestSpec == Init /\ [][NextRequest]_vars

\* Time passes up to the horizon and, beyond it, for as long as a timer of
\* sleep (lines 16-19) is pending: a timer that was set comes due.
TimerPending(r) == pc[r] \in {"cadenceSleep", "backoff"} /\ wakeAt[r] > now
TimePasses(horizon) ==
    /\ now + TickStep <= horizon \/ \E r \in Slots : TimerPending(r)
    /\ now' = now + TickStep
    /\ UNCHANGED pageVars
    /\ UNCHANGED <<lastCallPerSession, lastGlobalCall, uuids, started, permits,
                   overlapped, pc, body, sid, wakeAt, cadenceCalls, paceKey, seen,
                   retryVars, streamVars, resp, responded>>

\* Requests of one session, a rejected body, and calls that return without a
\* stream or with a stream of one chunk.
FairBodies == {b \in ConcurrentBodies : b.sessionId # Undefined \/ QuestionRejectedValue(b.question)}
FairCompletions == {c \in Completions : c.events \in {<<>>, <<Chunk(<<195, 169>>)>>}}

\* The outbound call of request r settles, one way or the other.
SendSettles(r) ==
    \/ \E c \in FairCompletions : SendSuccess(r, c)
    \/ \E e \in ConcurrentErrors : SendFail(r, e, 0)

NextFair ==
    \/ \E r \in Slots, b \in FairBodies : POST_Start(r, b, MaxFairRequests)
    \/ \E r \in Slots : POST_Parse(r)
    \/ \E r \in Slots : CadenceWake(r)
    \/ \E r \in Slots : CallBedrock(r)
    \/ \E r \in Slots, c \in FairCompletions : SendSuccess(r, c)
    \/ \E r \in Slots, e \in ConcurrentErrors : SendFail(r, e, 0)
    \/ \E r \in Slots : BackoffWake(r)
    \/ \E r \in Slots : StreamNext(r)
    \/ \E r \in Slots, e \in ConcurrentErrors : StreamFail(r, e)
    \/ TimePasses(MaxFairTime)

\* The event loop runs every continuation that is ready and every timer that
\* is due, time passes, every outbound call settles and every stream is read
\* to its end or fails.
Fairness ==
    /\ WF_vars(TimePasses(MaxFairTime))
    /\ \A r \in Slots :
          /\ WF_vars(POST_Parse(r))
          /\ WF_vars(CadenceWake(r))
          /\ WF_vars(CallBedrock(r))
          /\ WF_vars(SendSettles(r))
          /\ WF_vars(BackoffWake(r))
          /\ WF_vars(StreamNext(r))

FairSpec == Init /\ [][NextFair]_vars /\ Fairness

(* ======================= the dashboard page ======================= *)
\* src/app/page.tsx.  The value null of selectedSymbol and historyError is
\* the string "null"; the points of a symbol are a one-element sequence that
\* names the symbol, so that it shows whose points history holds.
Symbols == {"BTCUSDT", "ETHUSDT"}
Points(sym) == <<sym>>
NoPoints == <<>>
LoadFailed == "Failed to load price history"
NetworkError == "Network error"

\* What res.json() yields for a load of sym: the body of the 200 answer of
\* the history route with its points or without the points property, the
\* body of a failure with its error or without.
HistoryData(sym, ok) ==
    IF ok THEN {[error |-> "null", points |-> Points(sym), hasPoints |-> TRUE],
                [error |-> "null", points |-> NoPoints, hasPoints |-> FALSE]}
    ELSE {[error |-> "Failed to fetch history from Binance", points |-> NoPoints,
           hasPoints |-> FALSE],
          [error |-> "", points |-> NoPoints, hasPoints |-> FALSE]}
\* The message of a rejection: e?.message, which may be empty or missing.
RejectionMessages == {"Failed to fetch", ""}

InFlight(i) == loads[i].pc # "done"

\* Lines 197-204: loadHistory(sym) up to its first await.
LoadHistory(sym) ==
    /\ Len(loads) < MaxLoads
    /\ selectedSymbol' = sym
    /\ history' = NoPoints
    /\ historyError' = "null"
    /\ historyLoading' = TRUE
    /\ loads' = Append(loads, [sym |-> sym, pc |-> "fetch", ok |-> FALSE,
                               points |-> NoPoints])
    /\ UNCHANGED chatVars
    /\ UNCHANGED serverVars

\* Line 204: fetch resolves with a response, ok or not; res.json() is awaited.
FetchResolves(i, ok) ==
    /\ i \in 1..Len(loads)
    /\ loads[i].pc = "fetch"
    /\ loads' = [loads EXCEPT ![i].pc = "json", ![i].ok = ok]
    /\ UNCHANGED <<selectedSymbol, history, historyLoading, historyError>>
    /\ UNCHANGED chatVars
    /\ UNCHANGED serverVars

\* Lines 215-219: the catch and the finally.
LoadCatch(i, message) ==
    /\ historyError' = IF message # "" THEN message ELSE NetworkError
    /\ historyLoading' = FALSE
    /\ loads' = [loads EXCEPT ![i].pc = "done"]
    /\ UNCHANGED <<selectedSymbol, history>>

\* Line 204: fetch rejects.
FetchRejects(i, message) ==
    /\ i \in 1..Len(loads)
    /\ loads[i].pc = "fetch"
    /\ LoadCatch(i, message)
    /\ UNCHANGED chatVars
    /\ UNCHANGED serverVars

\* Lines 208-219: res.json() resolves; the error or the points are stored
\* and the finally clears historyLoading.
JsonResolves(i, data) ==
    /\ i \in 1..Len(loads)
    /\ loads[i].pc = "json"
    /\ data \in HistoryData(loads[i].sym, loads[i].ok)
    /\ IF ~loads[i].ok
       THEN /\ historyError' = IF data.error # "" THEN data.error ELSE LoadFailed
            /\ UNCHANGED history
       ELSE /\ history' = IF data.hasPoints THEN data.points ELSE NoPoints
            /\ UNCHANGED historyError
    /\ historyLoading' = FALSE
    /\ loads' = [loads EXCEPT ![i].pc = "done", ![i].points = data.points]
    /\ UNCHANGED selectedSymbol
    /\ UNCHANGED chatVars
    /\ UNCHANGED serverVars

\* Line 208: res.json() rejects.
JsonRejects(i, message) ==
    /\ i \in 1..Len(loads)
    /\ loads[i].pc = "json"
    /\ LoadCatch(i, message)
    /\ UNCHANGED chatVars
    /\ UNCHANGED serverVars

AllHistoryData == UNION {HistoryData(sym, ok) : sym \in Symbols, ok \in BOOLEAN}

NextPage ==
    \/ \E sym \in Symbols : LoadHistory(sym)
    \/ \E i \in 1..MaxLoads, ok \in BOOLEAN : FetchResolves(i, ok)
    \/ \E i \in 1..MaxLoads, m \in RejectionMessages : FetchRejects(i, m)
    \/ \E i \in 1..MaxLoads, data \in AllHistoryData : JsonResolves(i, data)
    \/ \E i \in 1..MaxLoads, m \in RejectionMessages : JsonRejects(i, m)

PageSpec == Init /\ [][NextPage]_vars

(* ---------------- the chat of the page ---------------- *)
\* The texts typed into the chat input: nothing, a blank, a question between
\* blanks.
ChatTexts == {<<>>, <<" ">>, <<" ", "h", " ">>}
\* Lines 139-145: the identifier drawn by the initializer of chatSessionId,
\* a UUID or the digits of Math.random() in base 36.
ChatSessionIds == {Str(<<"uuid">>), Str(<<"k", "7">>)}
ChatFallback == <<"Sorry, I could not get a response from the Finance Agent.">>
ChatCatchText ==
    <<"Something went wrong while contacting the Finance Agent. Please try again.">>

\* What resp.json() yields: the body of the 200 answer of the chat route, a
\* body of a failure, an object with neither property, an object whose reply
\* is not a string and whose error is empty, an empty reply, and null.
NoChatData == [kind |-> "none", reply |-> Undefined, error |-> Undefined]
ChatData ==
    {[kind |-> "object", reply |-> Str(<<"H", "i">>), error |-> Undefined],
     [kind |-> "object", reply |-> Undefined, error |-> Str(<<"Rate exceeded">>)],
     [kind |-> "object", reply |-> Undefined, error |-> Undefined],
     [kind |-> "object", reply |-> JsNumber, error |-> Str(<<>>)],
     [kind |-> "object", reply |-> Str(<<>>), error |-> Undefined],
     [kind |-> "null", reply |-> Undefined, error |-> Undefined]}

\* Lines 244-247.
ReplyText(data) ==
    IF TypeOf(data.reply) = "string" THEN data.reply.v
    ELSE IF Truthy(data.error) THEN data.error.v ELSE ChatFallback

Mounted == chatSessionId # Undefined
AskInFlight(i) == asks[i].pc \in {"fetch", "json"}

\* Lines 139-145: the first render draws chatSessionId; there is no setter.
MountPage(id) ==
    /\ ~Mounted
    /\ chatSessionId' = id
    /\ UNCHANGED <<chatInput, chatMessages, chatLoading, asks>>
    /\ UNCHANGED historyVars
    /\ UNCHANGED serverVars

\* Lines 688-702: the input, disabled while chatLoading, stores what is typed.
SetChatInput(text) ==
    /\ Mounted
    /\ ~chatLoading
    /\ text # chatInput
    /\ chatInput' = text
    /\ UNCHANGED <<chatMessages, chatLoading, chatSessionId, asks>>
    /\ UNCHANGED historyVars
    /\ UNCHANGED serverVars

\* Lines 224-240: the form is submitted (its input and its button are
\* disabled while chatLoading, lines 702 and 706); handleChatAsk up to its
\* first await, or to its return at line 228.
HandleChatAsk ==
    /\ Mounted
    /\ ~chatLoading
    /\ Len(asks) < MaxAsks
    /\ LET question == Trim(chatInput) IN
         IF question = <<>>
         THEN /\ asks' = Append(asks, [question |-> question, sessionId |-> Undefined,
                                       pc |-> "returned", data |-> NoChatData])
              /\ UNCHANGED <<chatInput, chatMessages, chatLoading>>
         ELSE /\ chatMessages' = Append(chatMessages, [sender |-> "user", text |-> question])
              /\ chatInput' = <<>>
              /\ chatLoading' = TRUE
              /\ asks' = Append(asks, [question |-> question, sessionId |-> chatSessionId,
                                       pc |-> "fetch", data |-> NoChatData])
    /\ UNCHANGED chatSessionId
    /\ UNCHANGED historyVars
    /\ UNCHANGED serverVars

\* Line 236: fetch resolves with a response; resp.json() is awaited.
ChatFetchResolves(i) ==
    /\ i \in 1..Len(asks)
    /\ asks[i].pc = "fetch"
    /\ asks' = [asks EXCEPT ![i].pc = "json"]
    /\ UNCHANGED <<chatInput, chatMessages, chatLoading, chatSessionId>>
    /\ UNCHANGED historyVars
    /\ UNCHANGED serverVars

\* Variant of ChatCatch without the finally of line 266.
ChatCatchNoFinally(i, data) ==
    /\ chatMessages' = Append(chatMessages, [sender |-> "ai", text |-> ChatCatchText])
    /\ asks' = [asks EXCEPT ![i].pc = "caught", ![i].data = data]
    /\ UNCHANGED <<chatInput, chatLoading, chatSessionId>>

\* Lines 256-268: the catch and the finally.
ChatCatch(i, data) ==
    /\ chatMessages' = Append(chatMessages, [sender |-> "ai", text |-> ChatCatchText])
    /\ chatLoading' = FALSE
    /\ asks' = [asks EXCEPT ![i].pc = "caught", ![i].data = data]
    /\ UNCHANGED <<chatInput, chatSessionId>>

\* Line 236: fetch rejects.
ChatFetchRejects(i) ==
    /\ i \in 1..Len(asks)
    /\ asks[i].pc = "fetch"
    /\ ChatCatch(i, NoChatData)
    /\ UNCHANGED historyVars
    /\ UNCHANGED serverVars

\* Lines 242-268: resp.json() resolves; the text of the answer is appended
\* and the finally clears chatLoading.  Reading data.reply of null throws a
\* TypeError, which the catch receives.
ChatJsonResolves(i, data) ==
    /\ i \in 1..Len(asks)
    /\ asks[i].pc = "json"
    /\ IF data.kind = "null"
       THEN ChatCatch(i, data)
       ELSE /\ chatMessages' = Append(chatMessages,
                                      [sender |-> "ai", text |-> ReplyText(data)])
            /\ chatLoading' = FALSE
            /\ asks' = [asks EXCEPT ![i].pc = "done", ![i].data = data]
            /\ UNCHANGED <<chatInput, chatSessionId>>
    /\ UNCHANGED historyVars
    /\ UNCHANGED serverVars

\* Line 242: resp.json() rejects.
ChatJsonRejects(i) ==
    /\ i \in 1..Len(asks)
    /\ asks[i].pc = "json"
    /\ ChatCatch(i, NoChatData)
    /\ UNCHANGED historyVars
    /\ UNCHANGED serverVars

ChatFetchSettles(i) == ChatFetchResolves(i) \/ ChatFetchRejects(i)
ChatJsonSettles(i) == (\E data \in ChatData : ChatJsonResolves(i, data)) \/ ChatJsonRejects(i)

NextChat ==
    \/ \E id \in ChatSessionIds : MountPage(id)
    \/ \E text \in ChatTexts : SetChatInput(text)
    \/ HandleChatAsk
    \/ \E i \in 1..MaxAsks : ChatFetchResolves(i)
    \/ \E i \in 1..MaxAsks : ChatFetchRejects(i)
    \/ \E i \in 1..MaxAsks, data \in ChatData : ChatJsonResolves(i, data)
    \/ \E i \in 1..MaxAsks : ChatJsonRejects(i)

\* Every fetch settles, and so does the reading of every response.
ChatFairness ==
    \A i \in 1..MaxAsks : WF_vars(ChatFetchSettles(i)) /\ WF_vars(ChatJsonSettles(i))

ChatSpec == Init /\ [][NextChat]_vars /\ ChatFairness

(* ======================= properties ======================= *)
PermitPairs == {p \in (1..Len(permits)) \X (1..Len(permits)) : p[1] < p[2]}
SameSession(p) == permits[p[1]].sid = permits[p[2]].sid
Gap(p) == permits[p[2]].ts - permits[p[1]].ts

\* What the specification calls a throttling failure.
ThrottlingFailure(e) ==
    \/ e.name = "ThrottlingException"
    \/ Includes(e.message, <<"Your", "request", "rate", "is", "too", "high">>)
AllThrottled(o) == \A i \in 1..Len(o) : ~o[i].ok /\ ThrottlingFailure(o[i].error)
ThrottledThenOk(o) ==
    /\ Len(o) >= 1
    /\ o[Len(o)].ok
    /\ AllThrottled(SubSeq(o, 1, Len(o) - 1))

\* C1: in every execution, concurrent ones included, any two permissions
\* recorded for the same sessionId are at least SESSION_DELAY apart.
C1_SessionSpacing == \A p \in PermitPairs : SameSession(p) => Gap(p) >= SESSION_DELAY

\* C2: in every execution, concurrent ones included, any two recorded
\* permissions, whatever their sessions, are at least GLOBAL_DELAY apart.
C2_GlobalSpacing == \A p \in PermitPairs : Gap(p) >= GLOBAL_DELAY

\* C3: when no two invocations of enforceCadence were ever in flight together,
\* any two permissions of the same sessionId are at least SESSION_DELAY apart.
C3_SerializedSessionSpacing ==
    ~overlapped => \A p \in PermitPairs : SameSession(p) => Gap(p) >= SESSION_DELAY
C3_Witness ==
    /\ ~overlapped
    /\ \E p \in PermitPairs : SameSession(p)
    /\ \E r \in Slots : pc[r] = "cadenceDone" /\ permits[Len(permits)].ts > StartTime

\* C4: k <= maxRetries throttling failures do not end the call (a wait or a
\* further attempt follows), and when the next attempt succeeds the operation
\* has been invoked exactly k+1 times, the call has returned the response of
\* attempt k and no attempt is in flight or follows.
C4_RetryUntilSuccess ==
    \A r \in Slots :
        LET o == outcomes[r] IN
        /\ (AllThrottled(o) /\ Len(o) \in 1..DefaultMaxRetries)
              => (result[r].kind = "none" /\ pc[r] \in {"backoff", "sending"})
        /\ ThrottledThenOk(o)
              => /\ Len(o) - 1 <= DefaultMaxRetries
                 /\ sendCalls[r] = Len(o)
                 /\ result[r] = [kind |-> "return", attempt |-> Len(o) - 1, error |-> NoError]
                 /\ inFlight[r] = 0
                 /\ pc[r] \in {"stream", "done"}
C4_Witness ==
    \E r \in Slots :
        /\ ThrottledThenOk(outcomes[r])
        /\ Len(outcomes[r]) = DefaultMaxRetries + 1
        /\ result[r].kind = "return"

\* C5: when every invocation fails with a throttling failure, the call does
\* not end before maxRetries + 1 invocations, and after exactly that many it
\* throws the failure of the last invocation (answered with 500).
C5_ExhaustedRetries ==
    \A r \in Slots :
        LET o == outcomes[r] IN
        /\ (AllThrottled(o) /\ Len(o) < DefaultMaxRetries + 1) => result[r].kind # "throw"
        /\ (AllThrottled(o) /\ Len(o) = DefaultMaxRetries + 1)
              => /\ sendCalls[r] = DefaultMaxRetries + 1
                 /\ inFlight[r] = 0
                 /\ result[r].kind = "throw"
                 /\ result[r].error = o[Len(o)].error
                 /\ result[r].error.attempt = DefaultMaxRetries
                 /\ pc[r] = "done"
                 /\ resp[r].status = 500
C5_Witness ==
    \E r \in Slots :
        /\ AllThrottled(outcomes[r])
        /\ Len(outcomes[r]) = DefaultMaxRetries + 1
        /\ result[r].kind = "throw"

\* C6: an invocation that fails with a failure that is not a throttling
\* failure is the last one: the call throws that very failure, nothing is
\* invoked and no backoff wait is started after it, at every attempt index.
C6_NonThrottlingPropagates ==
    \A r \in Slots :
        \A i \in 1..Len(outcomes[r]) :
            LET o == outcomes[r][i] IN
            (~o.ok /\ ~ThrottlingFailure(o.error))
               => /\ i = Len(outcomes[r])
                  /\ sendCalls[r] = i
                  /\ inFlight[r] = 0
                  /\ result[r] = [kind |-> "throw", attempt |-> -1, error |-> o.error]
                  /\ o.error.attempt = i - 1
                  /\ Len(waits[r]) = i - 1
                  /\ wakeAt[r] = 0
                  /\ pc[r] = "done"
                  /\ resp[r].status = 500
C6_Witness ==
    \E r \in Slots :
        LET o == outcomes[r] IN
        /\ Len(o) = DefaultMaxRetries + 1
        /\ ~o[Len(o)].ok
        /\ ~ThrottlingFailure(o[Len(o)].error)
        /\ result[r].kind = "throw"

\* C7: of one request at most one attempt is in flight, every attempt but the
\* newest has failed before the next one started, and there are never more
\* than maxRetries + 1 attempts.
C7_SequentialAttempts ==
    \A r \in Slots :
        /\ inFlight[r] \in {0, 1}
        /\ sendCalls[r] = Len(outcomes[r]) + inFlight[r]
        /\ sendCalls[r] <= DefaultMaxRetries + 1
        /\ \A i \in 1..(sendCalls[r] - 1) : ~outcomes[r][i].ok
C7_Witness ==
    \E r \in Slots : sendCalls[r] = DefaultMaxRetries + 1 /\ inFlight[r] = 1

\* C8: every answered POST whose body is a JSON value in which the question is
\* missing or is not a text value has status 400 and the missing-question body.
C8_MissingQuestion400 ==
    \A r \in Slots :
        (pc[r] = "done" /\ body[r].kind # "unparseable" /\ TypeOf(body[r].question) # "string")
           => resp[r] = ErrorResponse(400, MissingQuestion)

\* C9: a request answered 400 by validation has made no cadence acquisition
\* and no outbound call, and no step of a request that has made no cadence
\* acquisition changes lastCallPerSession or lastGlobalCall.
C9_RejectedLeavesPacing ==
    [][\A r \in Slots :
          /\ resp'[r].status = 400
                => (cadenceCalls'[r] = 0 /\ sendCalls'[r] = 0 /\ inFlight'[r] = 0)
          /\ (pc'[r] # pc[r] /\ cadenceCalls'[r] = 0) => UNCHANGED pacing]_vars
C9_Witness ==
    \E r \in Slots : resp[r].status = 400 /\ pc[r] = "done" /\ Len(permits) > 0

\* C10: a request whose body cannot be parsed, or is not a JSON object with
\* the fields, is answered with a 400-class status, never with 500.
C10_MalformedBody400 ==
    \A r \in Slots :
        (pc[r] = "done" /\ body[r].kind \in {"unparseable", "null", "scalar"})
           => resp[r].status \in 400..499

(* ---------------- the session identifier ---------------- *)
IssuedUUIDs == {RandomUUID(n) : n \in 1..uuids}
Blank(text) == \A i \in 1..Len(text) : text[i] = " "

\* C11 as stated: a request answered 200 whose sessionId is a non-empty text
\* value carries that value, unchanged, as the sessionId of the response.
C11_SuppliedUnlessEmpty ==
    \A r \in Slots :
        (resp[r].status = 200 /\ body[r].sessionId.t = "string" /\ body[r].sessionId.v # <<>>)
           => resp[r].sessionId = body[r].sessionId.v

\* C11: the identifier of a request answered 200 is one randomUUID issued
\* exactly when the sessionId of the body is absent, not a text value, or a
\* text of nothing but whitespace (the empty text included); otherwise it is
\* the sessionId of the body, untrimmed.  enforceCadence was called with that
\* identifier, the command carries it and so does the response.
C11_EffectiveSessionId ==
    \A r \in Slots :
        resp[r].status = 200 =>
            LET s == body[r].sessionId IN
            /\ IF s.t = "string" /\ ~Blank(s.v)
               THEN resp[r].sessionId = s.v
               ELSE resp[r].sessionId \in IssuedUUIDs
            /\ paceKey[r] = resp[r].sessionId
            /\ command[r].sessionId = resp[r].sessionId
            /\ \E i \in 1..Len(permits) : permits[i].sid = resp[r].sessionId
C11_Witness ==
    \E r \in Slots :
        /\ resp[r].status = 200
        /\ body[r].sessionId = Str(<<" ">>)
        /\ resp[r].sessionId \in IssuedUUIDs
        /\ command[r].sessionId = resp[r].sessionId

(* ---------------- the response ---------------- *)
\* C12: a request has been answered exactly once when its handler has ended
\* and not at all before; the answer has status 400 or 500 and a body whose
\* only field is error, or status 200 and a body with reply and sessionId.
C12_OneResponseTwoShapes ==
    \A r \in Slots :
        /\ responded[r] = (IF pc[r] = "done" THEN 1 ELSE 0)
        /\ pc[r] = "done" =>
              \/ resp[r].status \in {400, 500} /\ resp[r].fields = {"error"}
              \/ resp[r].status = 200 /\ resp[r].fields = {"reply", "sessionId"}
        /\ pc[r] # "done" => resp[r] = NoResponse
C12_Witness ==
    \E r \in Slots :
        /\ pc[r] = "done" /\ responded[r] = 1
        /\ resp[r].status = 500 /\ resp[r].fields = {"error"}
        /\ result[r].kind = "throw"

(* ---------------- the reply ---------------- *)
\* The decoded payloads of the events that carry bytes, joined in order.
RECURSIVE ConcatDecoded(_)
ConcatDecoded(events) ==
    IF events = <<>> THEN <<>>
    ELSE (IF Head(events).chunk /\ Head(events).hasBytes
          THEN Decode(Head(events).bytes) ELSE <<>>) \o ConcatDecoded(Tail(events))

\* C13 as stated: the reply of every request answered 200 is the
\* concatenation of the decoded payloads of its stream.
C13_ReplyIsConcatenation ==
    \A r \in Slots :
        resp[r].status = 200 => resp[r].reply = ConcatDecoded(completion[r].events)

\* C13: while the stream is read the text gathered so far is the concatenation,
\* in arrival order, of the decoded payloads of the events read that carry
\* bytes, and the reply of a request answered 200 is that concatenation over
\* the whole stream whenever it holds a character that is not whitespace.
C13_ReplyIsConcatenationUnlessBlank ==
    \A r \in Slots :
        /\ pc[r] = "stream"
              => reply[r] = ConcatDecoded(SubSeq(completion[r].events, 1, pos[r]))
        /\ (resp[r].status = 200 /\ ~Blank(ConcatDecoded(completion[r].events)))
              => resp[r].reply = ConcatDecoded(completion[r].events)
C13_Witness ==
    \E r \in Slots :
        /\ resp[r].status = 200
        /\ completion[r].events = <<Chunk(<<72>>), Chunk(<<105>>)>>
        /\ resp[r].reply = <<"H", "i">>

\* C14: a request whose call returned and whose stream was read to its end
\* without a failure (or that had no completion stream), the decoded payloads
\* being empty or only whitespace, is answered 200 with the fixed sentence as
\* the reply, and never with an error.
C14_FallbackReply ==
    \A r \in Slots :
        (/\ pc[r] = "done"
         /\ result[r].kind = "return"
         /\ streamError[r] = NoError
         /\ Blank(ConcatDecoded(completion[r].events)))
           => /\ resp[r].status = 200
              /\ resp[r].fields = {"reply", "sessionId"}
              /\ resp[r].reply =
                    <<"Sorry,", " ", "I", " ", "could", " ", "not", " ", "get", " ", "a",
                      " ", "response", " ", "from", " ", "the", " ", "Finance", " ",
                      "Agent.">>
C14_Witness ==
    \E r \in Slots :
        /\ pc[r] = "done"
        /\ completion[r] = [present |-> TRUE, events |-> <<NoChunk, Chunk(<<32>>)>>]
        /\ streamError[r] = NoError
        /\ resp[r].status = 200
        /\ resp[r].reply = FallbackReply

(* ---------------- failures after validation ---------------- *)
\* The failure that ended a request: the one the iteration of the stream
\* raised, else the one the last outbound call raised.
FailureOf(r) ==
    IF streamError[r] # NoError THEN streamError[r]
    ELSE outcomes[r][Len(outcomes[r])].error
Failed(r) ==
    \/ streamError[r] # NoError
    \/ result[r].kind = "throw"

\* C15: a request that passed validation and then failed, in the outbound
\* call, by exhausting the retries or while its stream was read, is answered
\* 500 with a body whose only field is error, holding the message of the
\* failure (of the last throttling failure after exhausted retries) when it is
\* not empty and the fixed text otherwise.
C15_FailureIs500WithMessage ==
    \A r \in Slots :
        (pc[r] = "done" /\ cadenceCalls[r] > 0 /\ Failed(r))
           => /\ resp[r].status = 500
              /\ resp[r].fields = {"error"}
              /\ resp[r].error =
                    IF FailureOf(r).message # <<>> THEN FailureOf(r).message
                    ELSE <<"Failed", "to", "contact", "the", "Finance", "Agent", "due",
                           "to", "rate", "limiting", "or", "another", "error.">>
C15_Witness ==
    \E r \in Slots :
        /\ pc[r] = "done"
        /\ Len(outcomes[r]) = DefaultMaxRetries + 1
        /\ result[r].kind = "throw"
        /\ outcomes[r][1].error.message = <<"Rate", "exceeded">>
        /\ resp[r] = ErrorResponse(500, <<"Bedrock:">> \o ThrottlePhrase)

(* ---------------- the rate limited condition ---------------- *)
\* How callBedrockWithRetry ended for request r: with the throw of line 63,
\* every attempt having met a throttling failure, or with the throw of line 60.
ExhaustedRetries(r) ==
    /\ result[r].kind = "throw"
    /\ Len(outcomes[r]) = DefaultMaxRetries + 1
    /\ AllThrottled(outcomes[r])
NonRetryable(r) ==
    /\ result[r].kind = "throw"
    /\ ~ThrottlingFailure(outcomes[r][Len(outcomes[r])].error)

C17_OwnChunksOnly ==
    \A r \in Slots :
        LET own == completion[r].events IN
        /\ pc[r] = "stream" => reply[r] = ConcatDecoded(SubSeq(own, 1, pos[r]))
        /\ (pc[r] = "done" /\ resp[r].status = 200)
              => resp[r].reply \in {ConcatDecoded(own), FallbackReply}
C17_Witness ==
    \E r1, r2 \in Slots :
        /\ pc[r1] = "stream" /\ pos[r1] = 1 /\ reply[r1] = <<"H">>
        /\ pc[r2] = "done" /\ resp[r2].status = 200 /\ resp[r2].reply = <<"U+00E9">>
        /\ pos[r2] = 1

(* ---------------- the race of enforceCadence ---------------- *)
\* The later of two permissions was given by an invocation that read the
\* pacing record before the earlier one was written: both invocations had
\* read before either wrote.
BothReadBeforeEitherWrote(p) == permits[p[2]].seen < p[1]

\* C18: two permissions of one sessionId less than SESSION_DELAY apart are
\* always those of two invocations that both read the pacing record before
\* either wrote it; the witness is the state of the race, which is reached.
C18_CloseOnlyByRace ==
    \A p \in PermitPairs :
        (SameSession(p) /\ Gap(p) < 2000) => BothReadBeforeEitherWrote(p)
C18_Witness ==
    \E p \in PermitPairs :
        /\ SameSession(p)
        /\ BothReadBeforeEitherWrote(p)
        /\ permits[p[1]].seen < p[1]
        /\ Gap(p) < 2000
        /\ overlapped

(* ---------------- failures of the stream ---------------- *)
\* C19: once callBedrockWithRetry has returned, the outbound operation is
\* not invoked again for the request, whatever happens to the stream: the
\* calls made stay those made up to the successful attempt, none is in
\* flight, and a request whose stream failed has ended with a 500.
C19_StreamFailureNotRetried ==
    \A r \in Slots :
        /\ result[r].kind = "return"
              => (sendCalls[r] = result[r].attempt + 1 /\ inFlight[r] = 0)
        /\ streamError[r] # NoError
              => (/\ result[r].kind = "return"
                  /\ pc[r] = "done"
                  /\ resp[r].status = 500
                  /\ sendCalls[r] = Len(outcomes[r])
                  /\ outcomes[r][Len(outcomes[r])].ok)
C19_Witness ==
    \E r \in Slots :
        /\ streamError[r].name = "ThrottlingException"
        /\ pos[r] = 1
        /\ sendCalls[r] = 1
        /\ pc[r] = "done"
        /\ resp[r].status = 500

(* ---------------- the backoff waits ---------------- *)
\* C20: the first call of a request is made with no wait; each later call n
\* (n = 1, 2) is made after one wait of 500 * 2^(n-1) ms plus a jitter of at
\* least 0 and less than 250 ms, so the waits lie in 500..749 and 1000..1249,
\* there are at most two of them, and none is shorter than the one before.
C20_BackoffWaits ==
    \A r \in Slots :
        LET w == waits[r] IN
        /\ Len(w) <= 2
        /\ Len(w) = (IF pc[r] = "backoff" THEN sendCalls[r]
                     ELSE IF sendCalls[r] = 0 THEN 0 ELSE sendCalls[r] - 1)
        /\ \A n \in 1..Len(w) :
              /\ w[n] >= 500 * (2 ^ (n - 1))
              /\ w[n] < 500 * (2 ^ (n - 1)) + 250
        /\ \A n \in 2..Len(w) : w[n] >= w[n - 1]
C20_Witness ==
    \E r \in Slots :
        /\ waits[r] = <<749, 1000>>
        /\ sendCalls[r] = 3

(* ---------------- the cadence within a request ---------------- *)
\* C21: a request calls enforceCadence at most once; once it has made an
\* outbound call it has called enforceCadence exactly once, that invocation
\* has returned (its permission is recorded under the request's identifier)
\* and the retries have not called it again; a request answered 200 or failed
\* by its outbound call has called it exactly once.
C21_CadenceOnceBeforeAttempts ==
    \A r \in Slots :
        /\ cadenceCalls[r] <= 1
        /\ sendCalls[r] >= 1
              => /\ cadenceCalls[r] = 1
                 /\ pc[r] \in {"sending", "backoff", "stream", "done"}
                 /\ \E i \in 1..Len(permits) : permits[i].sid = paceKey[r]
        /\ pc[r] \in {"json", "cadenceSleep"} => sendCalls[r] = 0
        /\ (pc[r] = "done" /\ resp[r].status = 200) => cadenceCalls[r] = 1
C21_Witness ==
    \E r \in Slots :
        /\ sendCalls[r] = 3
        /\ cadenceCalls[r] = 1
        /\ Len(permits) = 1

(* ---------------- who writes the pacing state ---------------- *)
\* Request r takes a step.
Steps(r) == pc'[r] # pc[r] \/ pos'[r] # pos[r]
AfterCadence(r) == pc[r] \in {"cadenceDone", "sending", "backoff", "stream"}

\* C22: no step a request takes after its enforceCadence has returned (the
\* outbound calls, their failures, the backoff waits, the reading of the
\* stream, the 200 and the 500 answers) changes lastCallPerSession or
\* lastGlobalCall: the permission of a request that fails stays recorded.
\* Every step that changes either is the return of an enforceCadence.
C22_OnlyCadenceWritesPacing ==
    [][/\ \A r \in Slots :
            (AfterCadence(r) /\ Steps(r))
               => /\ lastCallPerSession' = lastCallPerSession
                  /\ lastGlobalCall' = lastGlobalCall
       /\ (lastCallPerSession' # lastCallPerSession \/ lastGlobalCall' # lastGlobalCall)
             => \E r \in Slots :
                   /\ pc[r] \in {"json", "cadenceSleep"}
                   /\ pc'[r] = "cadenceDone"
                   /\ cadenceCalls'[r] = 1]_vars
C22_Witness ==
    \E r \in Slots :
        /\ pc[r] = "done"
        /\ resp[r].status = 500
        /\ cadenceCalls[r] = 1
        /\ paceKey[r] \in DOMAIN lastCallPerSession
        /\ lastCallPerSession[paceKey[r]] = lastGlobalCall
        /\ now > lastGlobalCall

(* ---------------- the entries of lastCallPerSession ---------------- *)
\* C23: no step removes a key of lastCallPerSession or lowers the timestamp
\* stored under a key; a key is added only by a permission, for the session
\* of that permission, and every permission stores its timestamp under the
\* key of its session.
C23_EntriesOnlyGrow ==
    [][/\ DOMAIN lastCallPerSession \subseteq DOMAIN lastCallPerSession'
       /\ \A k \in DOMAIN lastCallPerSession :
             lastCallPerSession'[k] >= lastCallPerSession[k]
       /\ Len(permits') > Len(permits)
             => LET p == permits'[Len(permits')] IN
                /\ DOMAIN lastCallPerSession' = DOMAIN lastCallPerSession \cup {p.sid}
                /\ lastCallPerSession'[p.sid] = p.ts
       /\ Len(permits') = Len(permits)
             => lastCallPerSession' = lastCallPerSession]_vars
C23_Witness ==
    /\ Cardinality(DOMAIN lastCallPerSession) = 2
    /\ \E p \in PermitPairs :
          /\ SameSession(p)
          /\ Gap(p) > 0
          /\ lastCallPerSession[permits[p[2]].sid] = permits[p[2]].ts

(* ---------------- suspended requests ---------------- *)
Suspended(r) == pc[r] \in {"cadenceSleep", "backoff", "sending"}

\* C24: while a request is suspended in its pacing wait, in a backoff wait or
\* in an outbound call, every step another request is ready for can be
\* taken: enforceCadence can be entered, a due pacing timer can fire, the
\* outbound call can be made and can return, the stream can be read.
C24_SuspendedDoesNotBlock ==
    \A r1, r2 \in Slots :
        (r1 # r2 /\ Suspended(r1))
           => /\ pc[r2] = "json" => ENABLED POST_Parse(r2)
              /\ (pc[r2] = "cadenceSleep" /\ now >= wakeAt[r2]) => ENABLED CadenceWake(r2)
              /\ pc[r2] = "cadenceDone" => ENABLED CallBedrock(r2)
              /\ pc[r2] = "sending" => ENABLED SendSuccess(r2, NoCompletion)
              /\ pc[r2] = "stream" => ENABLED StreamNext(r2)
\* A request of another session was permitted after r1 read the pacing
\* record and has its 200 answer while r1 is still in its pacing wait.
C24_Witness ==
    \E r1, r2 \in Slots :
        /\ pc[r1] = "cadenceSleep"
        /\ pc[r2] = "done" /\ resp[r2].status = 200
        /\ sid[r2] # sid[r1]
        /\ \E i \in 1..Len(permits) :
              /\ i > seen[r1]
              /\ permits[i].sid = sid[r2]
              /\ permits[i].seen >= seen[r1]

\* C25: a request whose outbound call is pending leaves that state only by the
\* call's completion: as long as the call has not completed, however much
\* time passes and whatever the other requests do, the request makes no other
\* call and has no response.
C25_PendingCallHoldsRequest ==
    [][\A r \in Slots :
          pc[r] = "sending"
             => IF Len(outcomes'[r]) = Len(outcomes[r])
                THEN /\ pc'[r] = "sending"
                     /\ sendCalls'[r] = sendCalls[r]
                     /\ inFlight'[r] = 1
                     /\ responded'[r] = 0
                     /\ resp'[r] = NoResponse
                ELSE Len(outcomes'[r]) = Len(outcomes[r]) + 1]_vars
\* The call of a request permitted 2400 ms ago is still pending at the end of
\* the model's time.
C25_Witness ==
    \E r \in Slots :
        /\ pc[r] = "sending"
        /\ sendCalls[r] = 1
        /\ responded[r] = 0
        /\ paceKey[r] \in DOMAIN lastCallPerSession
        /\ now >= lastCallPerSession[paceKey[r]] + 2400

(* ---------------- every request is answered ---------------- *)
\* C26: when every outbound call settles and every stream is read to its end
\* or fails, every request that was received is eventually answered,
\* whatever the other request does and however the calls are throttled.
C26_EveryRequestAnswered ==
    \A r \in Slots : (pc[r] \notin {"idle", "done"}) ~> (pc[r] = "done")
C26_Witness ==
    \E r1, r2 \in Slots :
        /\ r1 # r2
        /\ pc[r1] = "done" /\ Len(waits[r1]) = 2 /\ resp[r1].status = 500
        /\ pc[r2] = "done" /\ resp[r2].status = 200
        /\ sid[r1] = sid[r2]

(* ---------------- the two pacing records ---------------- *)
LatestSessionCall ==
    IF DOMAIN lastCallPerSession = {} THEN 0
    ELSE CHOOSE v \in {lastCallPerSession[k] : k \in DOMAIN lastCallPerSession} :
             \A k \in DOMAIN lastCallPerSession : lastCallPerSession[k] <= v

\* C27: lastGlobalCall is the largest timestamp held in lastCallPerSession, 0
\* when the Map is empty; it is the timestamp of the latest permission, and
\* no timestamp held in either record is later than the current time.
C27_GlobalIsLatestSessionCall ==
    /\ lastGlobalCall = LatestSessionCall
    /\ Len(permits) > 0 => lastGlobalCall = permits[Len(permits)].ts
    /\ lastGlobalCall <= now
    /\ \A k \in DOMAIN lastCallPerSession : lastCallPerSession[k] <= now
C27_Witness ==
    /\ Cardinality(DOMAIN lastCallPerSession) = 2
    /\ \E k \in DOMAIN lastCallPerSession : lastCallPerSession[k] < lastGlobalCall
    /\ \E k \in DOMAIN lastCallPerSession : lastCallPerSession[k] = lastGlobalCall
    /\ lastGlobalCall < now

(* ---------------- the wait of enforceCadence ---------------- *)
\* C28: an invocation of enforceCadence that suspends does so for more than 0
\* and at most 2000 ms, at most 800 ms when the Map has no entry for its
\* session, whoever else is waiting; one that does not suspend records its
\* permission at once; an invocation that has waited records its permission
\* when its timer fires, whatever the pacing records then hold, and does not
\* suspend again.
C28_OneBoundedWait ==
    [][\A r \in Slots :
          /\ (pc[r] = "json" /\ pc'[r] = "cadenceSleep")
                => /\ wakeAt'[r] - now > 0
                   /\ wakeAt'[r] - now <= 2000
                   /\ sid'[r] \notin DOMAIN lastCallPerSession => wakeAt'[r] - now <= 800
          /\ (pc[r] = "json" /\ pc'[r] = "cadenceDone")
                => permits' = Append(permits, [sid |-> sid'[r], ts |-> now,
                                               seen |-> Len(permits)])
          /\ (pc[r] = "cadenceSleep" /\ pc'[r] # "cadenceSleep")
                => /\ pc'[r] = "cadenceDone"
                   /\ now >= wakeAt[r]
                   /\ permits' = Append(permits, [sid |-> sid[r], ts |-> now,
                                                  seen |-> seen[r]])
          /\ pc'[r] = "cadenceSleep" => pc[r] \in {"json", "cadenceSleep"}]_vars
\* Two requests of one session wait at once, the second for the whole
\* SESSION_DELAY.
C28_Witness ==
    \E r1, r2 \in Slots :
        /\ r1 # r2
        /\ pc[r1] = "cadenceSleep" /\ pc[r2] = "cadenceSleep"
        /\ sid[r1] = sid[r2]
        /\ wakeAt[r2] = now + 2000

\* C29: as long as no invocation of enforceCadence has started while another
\* was waiting, any permission and the one recorded next, for the same
\* session or for another, are at least 800 ms apart.
C29_SerializedGlobalSpacing ==
    ~overlapped
       => \A i \in 1..(Len(permits) - 1) : permits[i + 1].ts - permits[i].ts >= 800
C29_Witness ==
    /\ ~overlapped
    /\ \E i \in 1..(Len(permits) - 1) :
          /\ permits[i + 1].sid # permits[i].sid
          /\ permits[i + 1].ts - permits[i].ts = 800
          /\ permits[i + 1].seen = i

(* ---------------- the price history of the page ---------------- *)
LoadInFlight == \E i \in 1..Len(loads) : InFlight(i)

\* The points shown are those of the selection.
HistoryIsOfSelection ==
    (~LoadInFlight /\ historyError = "null")
       => IF Len(loads) = 0 THEN history = <<>>
          ELSE /\ loads[Len(loads)].sym = selectedSymbol
               /\ history = loads[Len(loads)].points
\* The loading flag is up while a load is in flight.
LoadingWhileInFlight == LoadInFlight => historyLoading

\* C30: when no load is in flight and historyError is null, history holds the
\* points returned to the latest call of loadHistory, which is the one for
\* selectedSymbol (empty before any call), so that the late answer to an
\* earlier call has not replaced them; historyLoading is false only when no
\* load is in flight.
C30_HistoryOfSelectedSymbol == HistoryIsOfSelection /\ LoadingWhileInFlight

(* ---------------- the chat exchanges of the page ---------------- *)
\* The calls of handleChatAsk that passed the test of line 228.
Exchanges == SelectSeq(asks, LAMBDA a : a.pc # "returned")
Finished(a) == a.pc \in {"done", "caught"}

\* The text of the answer to an exchange: the reply when the body has a
\* string reply, else its error text when it has one, else a fixed sentence;
\* another fixed sentence when the exchange failed.
AnswerTextOf(a, text) ==
    \/ /\ a.pc = "done" /\ a.data.reply.t = "string"
       /\ text = a.data.reply.v
    \/ /\ a.pc = "done" /\ a.data.reply.t # "string"
       /\ a.data.error.t = "string" /\ a.data.error.v # <<>>
       /\ text = a.data.error.v
    \/ /\ a.pc = "done" /\ a.data.reply.t # "string"
       /\ ~(a.data.error.t = "string" /\ a.data.error.v # <<>>)
       /\ text = <<"Sorry, I could not get a response from the Finance Agent.">>
    \/ /\ a.pc = "caught"
       /\ text = <<"Something went wrong while contacting the Finance Agent. Please try again.">>

\* chatMessages is the user message of every exchange, each followed by the
\* one answer of that exchange once it has ended; chatLoading is true exactly
\* while an exchange is under way; every exchange sent chatSessionId.
ChatMessagesPaired ==
    LET n == Len(Exchanges) IN
    /\ \A k \in 1..n : ~Finished(Exchanges[k]) => k = n
    /\ Len(chatMessages) = IF n > 0 /\ ~Finished(Exchanges[n]) THEN 2 * n - 1 ELSE 2 * n
    /\ \A k \in 1..n :
          /\ Exchanges[k].question # <<>>
          /\ chatMessages[2 * k - 1] = [sender |-> "user", text |-> Exchanges[k].question]
          /\ Finished(Exchanges[k])
                => /\ chatMessages[2 * k].sender = "ai"
                   /\ AnswerTextOf(Exchanges[k], chatMessages[2 * k].text)
          /\ Exchanges[k].sessionId = chatSessionId
    /\ chatLoading <=> (n > 0 /\ ~Finished(Exchanges[n]))

\* A submission appends the trimmed question and raises chatLoading, a blank
\* one changes nothing; chatMessages changes by one appended message at a
\* time; chatSessionId, once drawn, never changes.
ChatSubmissionStep ==
    /\ (Len(asks') > Len(asks) /\ Blank(chatInput))
          => UNCHANGED <<chatInput, chatMessages, chatLoading, chatSessionId>>
    /\ (Len(asks') > Len(asks) /\ ~Blank(chatInput))
          => /\ chatMessages' = Append(chatMessages,
                                       [sender |-> "user", text |-> Trim(chatInput)])
             /\ chatLoading'
    /\ chatMessages' # chatMessages
          => /\ Len(chatMessages') = Len(chatMessages) + 1
             /\ SubSeq(chatMessages', 1, Len(chatMessages)) = chatMessages
    /\ chatSessionId # Undefined => chatSessionId' = chatSessionId

\* C31: every submission of a non-blank question appends one 'user' message
\* and, when its fetch and the reading of the response have settled, one 'ai'
\* message after it (the reply, the error text or a fixed sentence);
\* chatLoading is true during the exchange and false again at its end on
\* every path; every question is sent with the same chatSessionId; a blank
\* question changes nothing.
C31_ChatExchange ==
    /\ []ChatMessagesPaired
    /\ [][ChatSubmissionStep]_vars
    /\ \A i \in 1..MaxAsks :
          (i <= Len(asks) /\ asks[i].pc \in {"fetch", "json"})
             ~> (i <= Len(asks) /\ Finished(asks[i]) /\ ~chatLoading)
\* Three submissions: a blank one, one answered with an error text, one that
\* failed.
C31_Witness ==
    /\ Len(asks) = 3
    /\ \E i \in 1..3 : asks[i].pc = "returned"
    /\ \E i \in 1..3 : asks[i].pc = "done" /\ asks[i].data.error = Str(<<"Rate exceeded">>)
    /\ \E i \in 1..3 : asks[i].pc = "caught" /\ asks[i].data.kind = "null"
    /\ Len(chatMessages) = 4
    /\ ~chatLoading

====
